---- MODULE Spec2Model ----
(***************************************************************************)
(* Model of src/final.py: GraphModel (adjacency dictionary), TSPSolver     *)
(* (exhaustive search over itertools.permutations) and the three button    *)
(* handlers of Application (add_edge, calculate_tsp_route, reset).         *)
(*                                                                         *)
(* Python dictionaries keep insertion order and the solver's enumeration   *)
(* order comes from it, so a dictionary is a sequence of [key, val]        *)
(* entries, never a set.                                                   *)
(***************************************************************************)
EXTENDS Integers, Sequences, FiniteSets, TLC

\* ------------------------------------------------------------------ bounds
\* The largest digit typed in the distance entry.
MaxDigit == 1

\* The city names typed in the entries.
Cities == {"A", "B", "C"}

\* Texts typed in the distance entry: sequences of characters.
DigitChars == <<"0", "1", "2", "3", "4", "5", "6", "7", "8", "9">>
Digits == {DigitChars[i + 1] : i \in 0..MaxDigit}
DistanceTexts ==
    {<<d>> : d \in Digits} \cup {<<"-", d>> : d \in Digits \ {"0"}}
        \cup {<<>>, <<"x">>}

\* ------------------------------------------------------- Python dictionary
HasKey(d, k) == \E i \in 1..Len(d) : d[i].key = k

DictGet(d, k) == d[CHOOSE i \in 1..Len(d) : d[i].key = k].val

\* d[k] = v: an existing key keeps its position, a new key goes last.
DictSet(d, k, v) ==
    IF HasKey(d, k)
    THEN [i \in 1..Len(d) |-> IF d[i].key = k THEN [key |-> k, val |-> v] ELSE d[i]]
    ELSE Append(d, [key |-> k, val |-> v])

DictKeys(d) == {d[i].key : i \in 1..Len(d)}

\* ------------------------------------------------------------- GraphModel
GraphModel_init == <<>>

\* Mutant: line 19 is missing, the edge is written in one direction only.
GraphModel_add_edge_one_way(am, city1, city2, distance) ==
    LET a1 == IF ~HasKey(am, city1) THEN DictSet(am, city1, <<>>) ELSE am
        a2 == IF ~HasKey(a1, city2) THEN DictSet(a1, city2, <<>>) ELSE a1
    IN  DictSet(a2, city1, DictSet(DictGet(a2, city1), city2, distance))

GraphModel_add_edge(am, city1, city2, distance) ==
    LET a1 == IF ~HasKey(am, city1) THEN DictSet(am, city1, <<>>) ELSE am
        a2 == IF ~HasKey(a1, city2) THEN DictSet(a1, city2, <<>>) ELSE a1
        a3 == DictSet(a2, city1, DictSet(DictGet(a2, city1), city2, distance))
        a4 == DictSet(a3, city2, DictSet(DictGet(a3, city2), city1, distance))
    IN  a4

GraphModel_reset == <<>>

\* networkx.Graph: nodes in insertion order, adj[<<u, v>>] the edge weight.
nx_Graph == [nodes |-> <<>>, adj |-> <<>>]

InSeq(s, x) == \E i \in 1..Len(s) : s[i] = x

nx_add_node(nodes, n) == IF InSeq(nodes, n) THEN nodes ELSE Append(nodes, n)

nx_add_edge(G, u, v, w) ==
    [nodes |-> nx_add_node(nx_add_node(G.nodes, u), v),
     adj   |-> [p \in (DOMAIN G.adj) \cup {<<u, v>>, <<v, u>>} |->
                   IF p \in {<<u, v>>, <<v, u>>} THEN w ELSE G.adj[p]]]

RECURSIVE AddNeighbors(_, _, _, _)
AddNeighbors(G, city1, neighbors, j) ==
    IF j > Len(neighbors) THEN G
    ELSE AddNeighbors(nx_add_edge(G, city1, neighbors[j].key, neighbors[j].val),
                      city1, neighbors, j + 1)

RECURSIVE AddCities(_, _, _)
AddCities(G, am, i) ==
    IF i > Len(am) THEN G
    ELSE AddCities(AddNeighbors(G, am[i].key, am[i].val, 1), am, i + 1)

get_graph(am) == AddCities(nx_Graph, am, 1)

\* ----------------------------------------------------------- int(distance)
IsDigit(c) == \E i \in 1..Len(DigitChars) : DigitChars[i] = c

DigitValue(c) == (CHOOSE i \in 1..Len(DigitChars) : DigitChars[i] = c) - 1

Unsigned(text) ==
    IF Len(text) > 0 /\ text[1] \in {"-", "+"} THEN Tail(text) ELSE text

\* int() raises ValueError unless the text is an optional sign and digits.
int_raises(text) ==
    Len(Unsigned(text)) = 0 \/ \E i \in 1..Len(Unsigned(text)) : ~IsDigit(Unsigned(text)[i])

RECURSIVE DecimalValue(_, _, _)
DecimalValue(ds, i, acc) ==
    IF i > Len(ds) THEN acc ELSE DecimalValue(ds, i + 1, acc * 10 + DigitValue(ds[i]))

int(text) ==
    IF Len(text) > 0 /\ text[1] = "-"
    THEN 0 - DecimalValue(Unsigned(text), 1, 0)
    ELSE DecimalValue(Unsigned(text), 1, 0)

\* --------------------------------------------------- itertools.permutations
RemoveAt(s, i) == SubSeq(s, 1, i - 1) \o SubSeq(s, i + 1, Len(s))

Prepend(x, ps) == [k \in 1..Len(ps) |-> <<x>> \o ps[k]]

RECURSIVE permutations(_)
RECURSIVE PermsFrom(_, _)
\* The permutations whose first element is pool[i], pool[i+1], ... in turn.
PermsFrom(pool, i) ==
    IF i > Len(pool) THEN <<>>
    ELSE Prepend(pool[i], permutations(RemoveAt(pool, i))) \o PermsFrom(pool, i + 1)

permutations(pool) == IF Len(pool) = 0 THEN << <<>> >> ELSE PermsFrom(pool, 1)

\* -------------------------------------------------------------- TSPSolver
\* Line 40: "Начальный город отсутствует в графе!" (the start city is not
\* in the graph).
StartCityMissing == "start city is not in the graph"

\* float('inf') and the integers it is compared with.
Inf == [inf |-> TRUE, val |-> 0]
Finite(d) == [inf |-> FALSE, val |-> d]

\* Mutant: the comparison of line 53 is turned round.
Better_keeps_largest(distance, min_distance) ==
    min_distance.inf \/ distance > min_distance.val

\* Line 53: distance < min_distance
Better(distance, min_distance) == min_distance.inf \/ distance < min_distance.val

\* [node for node in nodes if node != start_city]
RECURSIVE Others(_, _)
Others(nodes, start_city) ==
    IF Len(nodes) = 0 THEN <<>>
    ELSE IF Head(nodes) = start_city THEN Others(Tail(nodes), start_city)
    ELSE <<Head(nodes)>> \o Others(Tail(nodes), start_city)

\* G[u][v]['weight'] raises KeyError when the pair was never added.
HasEdge(G, u, v) == <<u, v>> \in DOMAIN G.adj

\* Lines 47-51: the sum over consecutive pairs, then the closing edge.
RECURSIVE SumEdges(_, _, _, _)
SumEdges(G, route, i, distance) ==
    IF i > Len(route) - 1
    THEN IF HasEdge(G, route[Len(route)], route[1])
         THEN [raised |-> "None", distance |-> distance + G.adj[<<route[Len(route)], route[1]>>]]
         ELSE [raised |-> "KeyError", distance |-> 0]
    ELSE IF HasEdge(G, route[i], route[i + 1])
         THEN SumEdges(G, route, i + 1, distance + G.adj[<<route[i], route[i + 1]>>])
         ELSE [raised |-> "KeyError", distance |-> 0]

\* What calculate_tsp_route hands back: the pair (best_route, result) or the
\* exception; evaluated counts the permutations the loop body ran for.
Returned(raised, found, best_route, min_distance, message, evaluated) ==
    [raised |-> raised, found |-> found, best_route |-> best_route,
     min_distance |-> min_distance, message |-> message, evaluated |-> evaluated]

\* Mutant: a permutation that needs a missing edge is skipped.
RECURSIVE Search_skipping(_, _, _, _, _, _)
Search_skipping(G, start_city, perms, k, min_distance, best_route) ==
    IF k > Len(perms)
    THEN Returned("None", ~min_distance.inf, best_route, min_distance.val, "", k - 1)
    ELSE LET route == <<start_city>> \o perms[k]
             d == SumEdges(G, route, 1, 0)
         IN  IF d.raised = "None" /\ Better(d.distance, min_distance)
             THEN Search_skipping(G, start_city, perms, k + 1, Finite(d.distance), route)
             ELSE Search_skipping(G, start_city, perms, k + 1, min_distance, best_route)

\* Lines 45-57: the loop over the permutations, from the k-th on.
RECURSIVE Search(_, _, _, _, _, _)
Search(G, start_city, perms, k, min_distance, best_route) ==
    IF k > Len(perms)
    THEN Returned("None", TRUE, best_route, min_distance.val, "", k - 1)
    ELSE LET route == <<start_city>> \o perms[k]
             d == SumEdges(G, route, 1, 0)
         IN  IF d.raised # "None"
             THEN Returned(d.raised, FALSE, <<>>, 0, "", k)
             ELSE IF Better(d.distance, min_distance)
             THEN Search(G, start_city, perms, k + 1, Finite(d.distance), route)
             ELSE Search(G, start_city, perms, k + 1, min_distance, best_route)

\* Line 38: nodes = list(G.nodes)
NodeList(G) == G.nodes

\* Mutant: the check of line 39 is missing.
StartMissing_unchecked(nodes, start_city) == FALSE

\* Line 39: start_city not in nodes
StartMissing(nodes, start_city) == ~InSeq(nodes, start_city)

calculate_tsp_route(am, start_city) ==
    LET G == get_graph(am)
        nodes == NodeList(G)
    IN  IF StartMissing(nodes, start_city)
        THEN Returned("None", FALSE, <<>>, 0, StartCityMissing, 0)
        ELSE Search(G, start_city, permutations(Others(nodes, start_city)), 1, Inf, <<>>)

NoReturn == Returned("None", FALSE, <<>>, 0, "", 0)

\* ------------------------------------------------------------ Application
VARIABLES
    adjacency_matrix,   \* GraphModel.adjacency_matrix
    text_output,        \* what the Text widget shows
    call,               \* the handler that ran last and how it ended
    returned,           \* what TSPSolver.calculate_tsp_route returned or raised
    seen                \* an earlier result an observer wrote down

vars == <<adjacency_matrix, text_output, call, returned, seen>>

Shows(kind, message, route, length) ==
    [shows |-> kind, message |-> message, listing |-> <<>>, route |-> route,
     length |-> length]

\* update_output: one line per city with its neighbours, in dictionary order.
update_output(am) ==
    [shows |-> "graph", message |-> "", listing |-> am, route |-> <<>>, length |-> 0]

\* overwrote: add_edge replaced the recorded weight of the pair by another.
Call(op, start_city, raised, overwrote) ==
    [op |-> op, start_city |-> start_city, raised |-> raised, overwrote |-> overwrote]

Recorded(am, u, v) == HasKey(am, u) /\ HasKey(DictGet(am, u), v)

Weight(am, u, v) == DictGet(DictGet(am, u), v)

NothingSeen ==
    [noted |-> FALSE, content |-> {}, start_city |-> "", best_route |-> <<>>,
     min_distance |-> 0]

Init ==
    /\ adjacency_matrix = GraphModel_init
    /\ text_output = Shows("empty", "", <<>>, 0)
    /\ call = Call("init", "", "None", FALSE)
    /\ returned = NoReturn
    /\ seen = NothingSeen

\* Mutant: the check of line 129 is missing.
add_edge_error_no_city_check(city1, city2, text) ==
    IF int_raises(text) THEN "invalid literal for int()"
    ELSE IF int(text) < 0 THEN "distance must not be negative"
    ELSE "None"

\* The first check of lines 128-132 that raises ValueError, or "None".
add_edge_error(city1, city2, text) ==
    IF int_raises(text) THEN "invalid literal for int()"
    ELSE IF city1 = city2 THEN "cities must differ"
    ELSE IF int(text) < 0 THEN "distance must not be negative"
    ELSE "None"

Application_add_edge(city1, city2, text) ==
    LET error == add_edge_error(city1, city2, text)
    IN  /\ IF error = "None"
           THEN /\ adjacency_matrix' = GraphModel_add_edge(adjacency_matrix, city1, city2, int(text))
                /\ text_output' = update_output(adjacency_matrix')
                /\ call' = Call("add_edge", "", "None",
                                /\ Recorded(adjacency_matrix, city1, city2)
                                /\ Weight(adjacency_matrix, city1, city2) # int(text))
           ELSE /\ adjacency_matrix' = adjacency_matrix
                /\ text_output' = Shows("error", error, <<>>, 0)
                /\ call' = Call("add_edge", "", "ValueError", FALSE)
        /\ returned' = NoReturn

\* A KeyError leaves the handler before line 150: the text stays.
Application_calculate_tsp_route(start_city) ==
    /\ returned' = calculate_tsp_route(adjacency_matrix, start_city)
    /\ call' = Call("calculate_tsp_route", start_city, returned'.raised, FALSE)
    /\ text_output' =
          IF returned'.raised # "None" THEN text_output
          ELSE IF returned'.found
          THEN Shows("route", "", returned'.best_route, returned'.min_distance)
          ELSE Shows("message", returned'.message, <<>>, 0)
    /\ UNCHANGED adjacency_matrix

Application_reset ==
    /\ adjacency_matrix' = GraphModel_reset
    /\ text_output' = Shows("empty", "", <<>>, 0)
    /\ call' = Call("reset", "", "None", FALSE)
    /\ returned' = NoReturn

AddEdge ==
    /\ \E city1 \in Cities, city2 \in Cities, text \in DistanceTexts :
           Application_add_edge(city1, city2, text)
    /\ UNCHANGED seen

Calculate ==
    /\ \E start_city \in Cities : Application_calculate_tsp_route(start_city)
    /\ UNCHANGED seen

Reset == Application_reset /\ UNCHANGED seen

Next == AddEdge \/ Calculate \/ Reset

Spec == Init /\ [][Next]_vars

\* ------------------------------------------- the solver on four cities
\* Four cities; each road has its distance, but for B-D, where any digit is
\* typed: the three tours from a city then cost 2, 3 + BD and 1 + BD.
FourCities == {"A", "B", "C", "D"}

RoadDigits(c1, c2) ==
    IF {c1, c2} = {"B", "D"} THEN Digits
    ELSE IF {c1, c2} \in {{"A", "B"}, {"C", "D"}, {"A", "C"}} THEN {"1"}
    ELSE {"0"}

AddRoad ==
    /\ \E city1 \in FourCities, city2 \in FourCities :
           /\ city1 # city2
           /\ \E d \in RoadDigits(city1, city2) : Application_add_edge(city1, city2, <<d>>)
    /\ UNCHANGED seen

CalculateFour ==
    /\ \E start_city \in FourCities : Application_calculate_tsp_route(start_city)
    /\ UNCHANGED seen

NextFour == AddRoad \/ CalculateFour \/ Reset

SpecFour == Init /\ [][NextFour]_vars

\* --------------------------------- GraphModel and TSPSolver called directly
CoreCities == {"A", "B"}

CoreAddEdge ==
    /\ \E city1 \in CoreCities, city2 \in CoreCities, distance \in 0..MaxDigit :
           adjacency_matrix' = GraphModel_add_edge(adjacency_matrix, city1, city2, distance)
    /\ call' = Call("add_edge", "", "None", FALSE)
    /\ returned' = NoReturn
    /\ UNCHANGED <<text_output, seen>>

CoreSolve ==
    /\ \E start_city \in CoreCities :
           /\ returned' = calculate_tsp_route(adjacency_matrix, start_city)
           /\ call' = Call("calculate_tsp_route", start_city, returned'.raised, FALSE)
    /\ UNCHANGED <<adjacency_matrix, text_output, seen>>

CoreReset ==
    /\ adjacency_matrix' = GraphModel_reset
    /\ call' = Call("reset", "", "None", FALSE)
    /\ returned' = NoReturn
    /\ UNCHANGED <<text_output, seen>>

NextCore == CoreAddEdge \/ CoreSolve \/ CoreReset

SpecCore == Init /\ [][NextCore]_vars

\* ------------------------------ a session in which a result is written down
\* The recorded edges as a set: what the graph holds, whatever the order.
Content(am) ==
    UNION {{<<am[i].key, am[i].val[j].key, am[i].val[j].val>> :
               j \in 1..Len(am[i].val)} : i \in 1..Len(am)}

CalculateAndNote ==
    /\ \E start_city \in Cities : Application_calculate_tsp_route(start_city)
    /\ returned'.found
    /\ seen' = [noted |-> TRUE, content |-> Content(adjacency_matrix),
                start_city |-> call'.start_city,
                best_route |-> returned'.best_route,
                min_distance |-> returned'.min_distance]

AddValidEdge ==
    /\ \E city1 \in Cities, city2 \in Cities, d \in Digits :
           city1 # city2 /\ Application_add_edge(city1, city2, <<d>>)
    /\ UNCHANGED seen

NextReplay == AddValidEdge \/ Calculate \/ Reset \/ CalculateAndNote

SpecReplay == Init /\ [][NextReplay]_vars

\* ================================================================ claims
NodeSet == DictKeys(adjacency_matrix)

Solved == call.op = "calculate_tsp_route"

Complete == \A u \in NodeSet, v \in NodeSet : u # v => Recorded(adjacency_matrix, u, v)

\* Every order of the elements of S.
AllOrders(S) ==
    {p \in [1..Cardinality(S) -> S] :
        \A i \in 1..Cardinality(S), j \in 1..Cardinality(S) : i # j => p[i] # p[j]}

\* The recorded weight of the closed walk along r and back to r[1].
RECURSIVE PathCost(_, _)
PathCost(r, i) ==
    IF i >= Len(r) THEN Weight(adjacency_matrix, r[Len(r)], r[1])
    ELSE Weight(adjacency_matrix, r[i], r[i + 1]) + PathCost(r, i + 1)

ClosedCost(r) == PathCost(r, 1)

TourFrom(start_city, p) == <<start_city>> \o [i \in 1..Len(p) |-> p[i]]

\* C1: a successful solve returns n+1 entries, the start at both ends and
\* the other nodes once each in between.
C1_RouteIsClosedTour ==
    (Solved /\ returned.found) =>
        LET n == Cardinality(NodeSet)
            r == returned.best_route
        IN  /\ Len(r) = n + 1
            /\ r[1] = call.start_city
            /\ r[n + 1] = call.start_city
            /\ {r[i] : i \in 2..n} = NodeSet \ {call.start_city}

\* C2: on a complete graph the solve from a node of the graph succeeds, its
\* cost is the weight of the returned route closed back to the start, and no
\* tour from that start through all the nodes weighs less.
C2_CostIsMinimalTour ==
    (Solved /\ Complete /\ call.start_city \in NodeSet) =>
        /\ returned.found
        /\ returned.min_distance = ClosedCost(returned.best_route)
        /\ \A p \in AllOrders(NodeSet \ {call.start_city}) :
               ClosedCost(TourFrom(call.start_city, p)) >= returned.min_distance

\* Four nodes, and a tour that weighs more than the one returned.
C2_Witness ==
    /\ Solved /\ returned.found /\ Cardinality(NodeSet) = 4
    /\ \E p \in AllOrders(NodeSet \ {call.start_city}) :
           ClosedCost(TourFrom(call.start_city, p)) > returned.min_distance

MissingPair ==
    \E u \in NodeSet, v \in NodeSet : u # v /\ ~Recorded(adjacency_matrix, u, v)

\* C3: with three nodes or more and a pair without an edge, the solve from a
\* node of the graph raises (KeyError, out of the handler): no route and no
\* cost come back, and no route is shown.
C3_MissingEdgeFails ==
    (Solved /\ Cardinality(NodeSet) >= 3 /\ MissingPair /\ call.start_city \in NodeSet) =>
        /\ returned.raised = "KeyError"
        /\ ~returned.found
        /\ returned.best_route = <<>>
        /\ text_output.shows # "route"

AllRecorded(r) ==
    /\ \A i \in 1..(Len(r) - 1) : Recorded(adjacency_matrix, r[i], r[i + 1])
    /\ Recorded(adjacency_matrix, r[Len(r)], r[1])

\* Four nodes, a pair without an edge, and a tour that does not need it.
C3_Witness ==
    /\ Solved /\ Cardinality(NodeSet) = 4 /\ MissingPair /\ call.start_city \in NodeSet
    /\ returned.raised = "KeyError"
    /\ \E p \in AllOrders(NodeSet \ {call.start_city}) :
           AllRecorded(TourFrom(call.start_city, p))

Symmetric ==
    \A e \in Content(adjacency_matrix) : <<e[2], e[1], e[3]>> \in Content(adjacency_matrix)

LastWriteWins ==
    \A city1 \in Cities, city2 \in Cities, text \in DistanceTexts :
        (Application_add_edge(city1, city2, text) /\ add_edge_error(city1, city2, text) = "None")
            => /\ Recorded(adjacency_matrix', city1, city2)
               /\ Recorded(adjacency_matrix', city2, city1)
               /\ Weight(adjacency_matrix', city1, city2) = int(text)
               /\ Weight(adjacency_matrix', city2, city1) = int(text)

\* C4: the adjacency structure is symmetric in every state, and an accepted
\* add_edge leaves its weight recorded in both directions.
C4_SymmetricLastWriteWins == []Symmetric /\ [][LastWriteWins]_vars

\* An add_edge has replaced the weight of a recorded pair by another.
C4_Witness == call.op = "add_edge" /\ call.overwrote /\ Symmetric

NoSelfLoopNoNegative ==
    \A e \in Content(adjacency_matrix) : e[1] # e[2] /\ e[3] >= 0

InvalidEdgeRejected ==
    \A city1 \in Cities, city2 \in Cities, text \in DistanceTexts :
        (/\ Application_add_edge(city1, city2, text)
         /\ (city1 = city2 \/ (~int_raises(text) /\ int(text) < 0)))
            => /\ call'.raised = "ValueError"
               /\ text_output'.shows = "error"
               /\ adjacency_matrix' = adjacency_matrix

\* C5: add_edge with equal cities or a negative distance raises ValueError
\* and leaves the graph as it was; no state holds a self-loop or a negative
\* weight.
C5_InvalidEdgeRejected == []NoSelfLoopNoNegative /\ [][InvalidEdgeRejected]_vars

\* A self-loop was refused on a graph that holds edges.
C5_Witness ==
    /\ call.op = "add_edge" /\ call.raised = "ValueError"
    /\ text_output.message = "cities must differ"
    /\ adjacency_matrix # <<>>

\* C6: a solve on the empty graph fails, and its report is another than the
\* report of a start city that is not in the graph.
C6_EmptyGraphError ==
    (Solved /\ NodeSet = {}) =>
        /\ ~returned.found
        /\ returned.message # StartCityMissing

\* C7: two solves from the same start on graphs holding the same weighted
\* edges return the same route and the same cost.
C7_SameContentSameResult ==
    (/\ Solved /\ returned.found /\ seen.noted
     /\ seen.content = Content(adjacency_matrix)
     /\ seen.start_city = call.start_city)
        => /\ returned.best_route = seen.best_route
           /\ returned.min_distance = seen.min_distance

StartNotFound ==
    (Solved /\ NodeSet # {} /\ call.start_city \notin NodeSet) =>
        /\ returned.raised = "None"
        /\ ~returned.found
        /\ returned.best_route = <<>>
        /\ returned.message = StartCityMissing
        /\ returned.evaluated = 0
        /\ text_output = Shows("message", StartCityMissing, <<>>, 0)

SolveKeepsGraph == Solved' => adjacency_matrix' = adjacency_matrix

\* C8: on a graph with nodes, a solve from a start that is no node reports
\* the missing start city, returns no route, evaluates no permutation and
\* leaves the graph as it was.
C8_StartNotFound == []StartNotFound /\ [][SolveKeepsGraph]_vars

\* The start city is missing from a graph that holds edges.
C8_Witness ==
    /\ Solved /\ NodeSet # {} /\ call.start_city \notin NodeSet
    /\ returned.message = StartCityMissing

LabelOrder == <<"A", "B", "C", "D">>
Rank(c) == CHOOSE i \in 1..Len(LabelOrder) : LabelOrder[i] = c

SortedByLabel(S) ==
    CHOOSE p \in AllOrders(S) :
        \A i \in 1..Cardinality(S), j \in 1..Cardinality(S) :
            i < j => Rank(p[i]) < Rank(p[j])

\* The first of the cheapest candidates, enumerating perms from the k-th on.
RECURSIVE FirstCheapest(_, _, _)
FirstCheapest(start_city, perms, k) ==
    IF \A j \in 1..Len(perms) :
           ClosedCost(TourFrom(start_city, perms[k])) <= ClosedCost(TourFrom(start_city, perms[j]))
    THEN perms[k]
    ELSE FirstCheapest(start_city, perms, k + 1)

\* C10: the returned route is, of the cheapest candidates, the first in the
\* permutation order of the other nodes sorted by label.
C10_FirstInSortedOrder ==
    (Solved /\ returned.found) =>
        SubSeq(returned.best_route, 2, Cardinality(NodeSet)) =
            FirstCheapest(call.start_city,
                          permutations(SortedByLabel(NodeSet \ {call.start_city})),
                          1)

====
